---- MODULE Spec2Model ----
(***************************************************************************)
(* A model of the experiment scripts of 88ai_analysis_project:             *)
(*   - users/alex/models/test.py: the cross-validation driver and its CSV  *)
(*     results store (memoization by parameter values);                    *)
(*   - users/ezra/data_handling/dataset.py: VenusDataset;                  *)
(*   - users/ezra/models/wrappers/pytorch_wrapper.py: PyTorchWrapper.      *)
(* Python values are modelled with their type, because the store compares  *)
(* str() renderings: an int 1 renders "1", a float 1.0 renders "1.0".      *)
(***************************************************************************)
EXTENDS Integers, Sequences, FiniteSets, TLC

VARIABLES store, log, out, ctor, ds, result, wctor, wrapper, wresult

vars == <<store, log, out, ctor, ds, result, wctor, wrapper, wresult>>
driverVars == <<store, log, out>>
datasetVars == <<ctor, ds, result>>
wrapperVars == <<wctor, wrapper, wresult>>

(***************************************************************************)
(* Bounds of the model.                                                    *)
(***************************************************************************)
MaxRuns == 2
MaxN == 2
MaxMetric == 2
MaxRows == 3
MaxSeqLen == 3
MaxEpochs == 2
MaxBatch == 2
MaxHistory == 4

(***************************************************************************)
(* Generic helpers on sequences.                                           *)
(***************************************************************************)
Range(s) == {s[i] : i \in DOMAIN s}

Min(a, b) == IF a < b THEN a ELSE b

Max(a, b) == IF a > b THEN a ELSE b

Contains(s, x) == \E i \in DOMAIN s : s[i] = x

\* Python's list slice s[:n] for n >= 0.
Take(s, n) == SubSeq(s, 1, Min(n, Len(s)))

\* Python's list(filter(pred, s)), for pred = "x not in drop".
RECURSIVE FilterNotIn(_, _)
FilterNotIn(s, drop) ==
    IF s = <<>> THEN <<>>
    ELSE IF Contains(drop, Head(s)) THEN FilterNotIn(Tail(s), drop)
    ELSE <<Head(s)>> \o FilterNotIn(Tail(s), drop)

\* Python's sep.join(parts) on strings.
RECURSIVE Join(_, _)
Join(sep, parts) ==
    IF parts = <<>> THEN ""
    ELSE IF Len(parts) = 1 THEN parts[1]
    ELSE parts[1] \o sep \o Join(sep, Tail(parts))

RECURSIVE Gcd(_, _)
Gcd(a, b) == IF b = 0 THEN a ELSE Gcd(b, a % b)

(***************************************************************************)
(* Python values.  A float is held as a reduced fraction num/den with      *)
(* den > 0; its str() is the decimal for whole numbers ("2.0") and, in     *)
(* this model, the reduced fraction text otherwise, which is one text per  *)
(* value as Python's shortest repr is.                                     *)
(***************************************************************************)
PyInt(n) == [t |-> "int", num |-> n, den |-> 1, s |-> ""]

PyFloat(n, d) ==
    LET g == Gcd(IF n < 0 THEN -n ELSE n, d)
    IN  [t |-> "float", num |-> n \div g, den |-> d \div g, s |-> ""]

PyStr(x) == [t |-> "str", num |-> 0, den |-> 1, s |-> x]

PyBool(b) == [t |-> "bool", num |-> (IF b THEN 1 ELSE 0), den |-> 1, s |-> ""]

PyNone == [t |-> "None", num |-> 0, den |-> 1, s |-> ""]

\* str(value), which both csv.writer and has_matching_parameters apply.
Str(v) ==
    CASE v.t = "int" -> ToString(v.num)
      [] v.t = "float" ->
            IF v.den = 1 THEN ToString(v.num) \o ".0"
            ELSE ToString(v.num) \o "/" \o ToString(v.den)
      [] v.t = "str" -> v.s
      [] v.t = "bool" -> (IF v.num = 1 THEN "True" ELSE "False")
      [] OTHER -> "None"

\* Python arithmetic on numbers: int*int is an int, anything with a float
\* is a float.
PyMul(a, b) ==
    IF a.t = "int" /\ b.t = "int" THEN PyInt(a.num * b.num)
    ELSE PyFloat(a.num * b.num, a.den * b.den)

PyAdd(a, b) ==
    IF a.t = "int" /\ b.t = "int" THEN PyInt(a.num + b.num)
    ELSE PyFloat(a.num * b.den + b.num * a.den, a.den * b.den)

\* a / b for b # 0: true division always yields a float.
PyDiv(a, b) ==
    IF b.num < 0 THEN PyFloat(-(a.num * b.den), a.den * (-b.num))
    ELSE PyFloat(a.num * b.den, a.den * b.num)

PyList(xs) == [t |-> "list", num |-> 0, den |-> 1, s |-> "[" \o Join(", ", xs) \o "]"]

(***************************************************************************)
(* Input files.  A parquet file is its directory, the run label inside its *)
(* name (dir/watch_data_<run>_processed.parquet) and its column names.     *)
(***************************************************************************)
FileColumns == <<"bias", "v", "bias_v">>

File(dir, run) == [dir |-> dir, run |-> run, columns |-> FileColumns]

Path(f) == f.dir \o "watch_data_" \o f.run \o "_processed.parquet"

\* The parquet file lists the driver is invoked with.  ThreeRuns and TwoRuns
\* name different files whose run labels join to the same text "1_2_3";
\* OneRun is too short for cross-validation.
ThreeRuns == <<File("d/", "1"), File("d/", "2"), File("d/", "3")>>

TwoRuns == <<File("d/", "1_2"), File("e/", "3")>>

OneRun == <<File("d/", "1")>>

FileLists == { ThreeRuns, TwoRuns }

PredictColumnLists == { <<"bias", "v">>, <<"bias_v">> }

DummyValues == { PyNone, PyStr("x") }

(***************************************************************************)
(* The command line, after argparse's type conversion: the top-level       *)
(* options, the model selector and the selected sub-parser's options in    *)
(* the order add_argument declared them.                                   *)
(***************************************************************************)
TreeOpts(importance, n_estimators) ==
    << <<"importance", PyBool(importance)>>,
       <<"n_estimators", PyInt(n_estimators)>>,
       <<"max_depth", PyInt(6)>>,
       <<"max_leaves", PyInt(0)>>,
       <<"max_bin", PyInt(256)>>,
       <<"grow_policy", PyStr("depthwise")>>,
       <<"learning_rate", PyFloat(3, 10)>>,
       <<"objective", PyStr("reg:squarederror")>>,
       <<"tree_method", PyStr("hist")>>,
       <<"reg_alpha", PyFloat(0, 1)>>,
       <<"reg_lambda", PyFloat(1, 1)>>,
       <<"subsample", PyFloat(1, 1)>>,
       <<"colsample_bynode", PyFloat(1, 1)>>,
       <<"colsample_bytree", PyFloat(1, 1)>>,
       <<"num_boost_round", PyInt(10)>>,
       <<"num_parallel_tree", PyInt(1)>> >>

KnnOpts(num_neighbors) ==
    << <<"num_neighbors", PyInt(num_neighbors)>>,
       <<"to_normalize", PyInt(1)>> >>

Argv(files, predict, dummy, model, opts, given) ==
    [parquet_files |-> files, predict_columns |-> predict, dummy |-> dummy,
     model |-> model, opts |-> opts, given |-> given]

\* The column names cli_parser reads from the first file (line 63).
ColumnNames(files, predict) == FilterNotIn(files[1].columns, predict)

\* The command lines of the model: every file list and dummy value, with
\* tree (importance flag and n_estimators varied), cheat, or knn (either
\* predict-column list, whose columns decide the weight options; the first
\* column's weight left at its default or given as 1.0); and one command
\* line with a single parquet file.  Tree and cheat ignore the columns, so
\* they are run with one predict-column list.
TreeChoices == { <<FALSE, 1>>, <<TRUE, 1>>, <<FALSE, 2>> }

ArgvSet ==
    UNION { UNION {
        { Argv(files, <<"bias_v">>, dummy, "tree", TreeOpts(c[1], c[2]), <<>>) :
              c \in TreeChoices }
        \cup
        { Argv(files, <<"bias_v">>, dummy, "cheat", <<>>, <<>>) }
        \cup
        UNION { { Argv(files, predict, dummy, "knn", KnnOpts(1), given) :
                    given \in { <<>>,
                                << <<ColumnNames(files, predict)[1], PyFloat(1, 1)>> >> } }
                : predict \in PredictColumnLists }
        : dummy \in DummyValues } : files \in FileLists }
    \cup { Argv(OneRun, <<"bias_v">>, PyNone, "cheat", <<>>, <<>>) }

(***************************************************************************)
(* cli_parser (lines 15-87).  A namespace is the sequence of its           *)
(* (name, value) attributes in insertion order, as vars(args) lists them.  *)
(***************************************************************************)
RECURSIVE DelAttr(_, _)
DelAttr(ns, name) ==
    IF ns = <<>> THEN <<>>
    ELSE IF Head(ns)[1] = name THEN DelAttr(Tail(ns), name)
    ELSE <<Head(ns)>> \o DelAttr(Tail(ns), name)

HasAttr(ns, name) == \E i \in DOMAIN ns : ns[i][1] = name

GetAttr(ns, name) == ns[CHOOSE i \in DOMAIN ns : ns[i][1] = name][2]

Names(ns) == [i \in DOMAIN ns |-> ns[i][1]]

Values(ns) == [i \in DOMAIN ns |-> ns[i][2]]

\* The knn weight options added at line 66: one per column, default int 0,
\* a given value converted by type=float.
WeightAttrs(columns, given) ==
    [i \in DOMAIN columns |->
        <<columns[i], IF HasAttr(given, columns[i])
                      THEN GetAttr(given, columns[i]) ELSE PyInt(0)>>]

ParsedArgs(argv) ==
    << <<"parquet_files", PyList([i \in DOMAIN argv.parquet_files |-> Path(argv.parquet_files[i])])>>,
       <<"predict_columns", PyList(argv.predict_columns)>>,
       <<"dummy", argv.dummy>>,
       <<"model", PyStr(argv.model)>> >>
    \o argv.opts
    \o (IF argv.model = "knn"
        THEN WeightAttrs(ColumnNames(argv.parquet_files, argv.predict_columns), argv.given)
        ELSE <<>>)

PrettyArgs(argv) ==
    LET a == ParsedArgs(argv)
        p == DelAttr(DelAttr(DelAttr(DelAttr(a, "parquet_files"),
                 "predict_columns"), "model"), "dummy")
    IN  IF argv.model = "tree" THEN DelAttr(p, "importance") ELSE p

cli_parser(argv) ==
    IF 2 > Len(argv.parquet_files)
    THEN [error |-> "ValueError", args |-> <<>>, pretty_args |-> <<>>]
    ELSE [error |-> "", args |-> ParsedArgs(argv), pretty_args |-> PrettyArgs(argv)]

(***************************************************************************)
(* shorten_parquet_files (lines 136-144): the regular expression takes the *)
(* text between "watch_data_" and "_processed", which is the run label.    *)
(***************************************************************************)
RunLabel(f) == f.run

shorten_parquet_files(parquet_files) ==
    Join("_", [i \in DOMAIN parquet_files |-> RunLabel(parquet_files[i])])

\* csv_filename (line 208).
CsvFilename(argv) ==
    "./results/" \o shorten_parquet_files(argv.parquet_files) \o "_model_"
        \o argv.model \o "_cols_" \o Join("_", argv.predict_columns) \o ".csv"

(***************************************************************************)
(* The results store: store maps a file name to the rows of the CSV file,  *)
(* each row the sequence of its cells as text.  csv.writer writes str() of *)
(* each value and csv.reader returns the same text.                        *)
(***************************************************************************)
IsFile(st, filename) == filename \in DOMAIN st

Rows(st, filename) == IF IsFile(st, filename) THEN st[filename] ELSE <<>>

WriteRow(values) == [i \in DOMAIN values |-> Str(values[i])]

\* has_matching_parameters comparing the whole row, not its leading columns.
has_matching_parameters_whole_row(st, filename, pretty_values) ==
    IF ~IsFile(st, filename) THEN FALSE
    ELSE \E r \in DOMAIN st[filename] :
             Len(st[filename][r]) > 0 /\ st[filename][r] = WriteRow(pretty_values)

\* has_matching_parameters matching any non-empty row, whatever its values.
has_matching_parameters_any_row(st, filename, pretty_values) ==
    IF ~IsFile(st, filename) THEN FALSE
    ELSE \E r \in DOMAIN st[filename] : Len(st[filename][r]) > 0

\* has_matching_parameters (lines 185-197).
has_matching_parameters(st, filename, pretty_values) ==
    IF ~IsFile(st, filename) THEN FALSE
    ELSE LET str_pretty_values == WriteRow(pretty_values)
             length == Len(str_pretty_values)
         IN  \E r \in DOMAIN st[filename] :
                 LET row == st[filename][r]
                 IN  Len(row) > 0 /\ Take(row, length) = str_pretty_values

\* ["Label", "MSE", "MAE", "MAPE", "N"] * n (line 158).
RECURSIVE GroupHeaders(_)
GroupHeaders(n) ==
    IF n = 0 THEN <<>>
    ELSE <<"Label", "MSE", "MAE", "MAPE", "N">> \o GroupHeaders(n - 1)

\* The loop of lines 163-164, from fold i on.
RECURSIVE MetricCells(_, _, _, _, _, _)
MetricCells(i, label_list, mse_list, mae_list, mape_list, n_list) ==
    IF i > Len(label_list) THEN <<>>
    ELSE <<label_list[i], Str(mse_list[i]), Str(mae_list[i]),
           Str(mape_list[i]), Str(n_list[i])>>
         \o MetricCells(i + 1, label_list, mse_list, mae_list, mape_list, n_list)

\* save_data (lines 148-166): the store after the call.
save_data(st, filename, args, label_list, mse_list, mae_list, mape_list, n_list) ==
    LET file_exists == IsFile(st, filename) /\ Len(st[filename]) > 0
        headers == Names(args) \o GroupHeaders(Len(label_list))
        row == WriteRow(Values(args))
                 \o MetricCells(1, label_list, mse_list, mae_list, mape_list, n_list)
        written == IF ~file_exists THEN <<headers, row>> ELSE <<row>>
    IN  [f \in DOMAIN st \cup {filename} |->
            IF f = filename THEN Rows(st, f) \o written ELSE st[f]]

(***************************************************************************)
(* weighted_average (lines 223-231): the loop accumulates total and        *)
(* total_count from fold i on; the division raises ZeroDivisionError when  *)
(* total_count is 0 (Python numbers).                                      *)
(***************************************************************************)
RECURSIVE WeightedTotals(_, _, _, _, _)
WeightedTotals(i, val_list, count_list, total, total_count) ==
    IF i > Len(val_list) THEN <<total, total_count>>
    ELSE WeightedTotals(i + 1, val_list, count_list,
                        PyAdd(total, PyMul(val_list[i], count_list[i])),
                        PyAdd(total_count, count_list[i]))

\* weighted_average as the plain mean of the values, the counts ignored.
weighted_average_plain_mean(val_list, count_list) ==
    LET t == WeightedTotals(1, val_list, [i \in DOMAIN count_list |-> PyInt(1)],
                            PyInt(0), PyInt(0))
        c == WeightedTotals(1, val_list, count_list, PyInt(0), PyInt(0))
    IN  IF c[2].num = 0 THEN [error |-> "ZeroDivisionError", value |-> PyNone]
        ELSE [error |-> "", value |-> PyDiv(t[1], t[2])]

weighted_average(val_list, count_list) ==
    LET t == WeightedTotals(1, val_list, count_list, PyInt(0), PyInt(0))
    IN  IF t[2].num = 0 THEN [error |-> "ZeroDivisionError", value |-> PyNone]
        ELSE [error |-> "", value |-> PyDiv(t[1], t[2])]

\* sum(n_list) (line 238).
RECURSIVE PySum(_)
PySum(xs) == IF xs = <<>> THEN PyInt(0) ELSE PyAdd(Head(xs), PySum(Tail(xs)))

(***************************************************************************)
(* model.k_fold_cross_validation (line 221) is code of the models package: *)
(* its result is an input of the driver, one fold per parquet file, drawn  *)
(* from the sets below.  Fold i is labelled with file i; its metrics are   *)
(* floats and its sample count an int.                                     *)
(***************************************************************************)
CVResult(files, m, n) ==
    [label_list |-> [i \in DOMAIN files |-> Path(files[i])],
     mse_list |-> [i \in DOMAIN files |-> PyFloat(m[i], 1)],
     mae_list |-> [i \in DOMAIN files |-> PyFloat(m[i] + i, 2)],
     mape_list |-> [i \in DOMAIN files |-> PyFloat(2 * m[i] + 1, 1)],
     n_list |-> [i \in DOMAIN files |-> PyInt(n[i])]]

\* All results with sample counts 0..MaxN and metrics 1..MaxMetric per fold.
CVRich(files) ==
    { CVResult(files, m, n) :
          m \in [DOMAIN files -> 1..MaxMetric], n \in [DOMAIN files -> 0..MaxN] }

\* Two results: every fold empty, or every fold with one sample.
CVLean(files) ==
    { CVResult(files, [i \in DOMAIN files |-> i], [i \in DOMAIN files |-> c]) :
          c \in 0..1 }

NoLists == [label_list |-> <<>>, mse_list |-> <<>>, mae_list |-> <<>>,
            mape_list |-> <<>>, n_list |-> <<>>]

NoOut == [ran_cv |-> FALSE, cv |-> NoLists, agg |-> NoLists, save_calls |-> 0]

LogEntry(argv, outcome, st, st2) ==
    [argv |-> argv, outcome |-> outcome,
     before |-> Len(Rows(st, CsvFilename(argv))),
     after |-> Len(Rows(st2, CsvFilename(argv)))]

(***************************************************************************)
(* One invocation of the driver, __main__ (lines 201-246), on the command  *)
(* line argv, with cv the result cross-validation returns if it is run.    *)
(***************************************************************************)
Aggregate(cv) ==
    [label_list |-> <<"agg">> \o cv.label_list,
     mse_list |-> <<weighted_average(cv.mse_list, cv.n_list).value>> \o cv.mse_list,
     mae_list |-> <<weighted_average(cv.mae_list, cv.n_list).value>> \o cv.mae_list,
     mape_list |-> <<weighted_average(cv.mape_list, cv.n_list).value>> \o cv.mape_list,
     n_list |-> <<PySum(cv.n_list)>> \o cv.n_list]

\* The body of __main__ on the store st: the outcome, the store afterwards
\* and what the invocation computed.
RunMain(st, argv, cv) ==
    LET parsed == cli_parser(argv)
        csv_filename == CsvFilename(argv)
    IN  IF parsed.error # ""
        THEN [outcome |-> parsed.error, store |-> st, out |-> NoOut]
        ELSE IF ~has_matching_parameters(st, csv_filename, Values(parsed.pretty_args))
        THEN IF weighted_average(cv.mse_list, cv.n_list).error # ""
             THEN [outcome |-> "ZeroDivisionError", store |-> st,
                   out |-> [ran_cv |-> TRUE, cv |-> cv, agg |-> NoLists,
                            save_calls |-> 0]]
             ELSE LET agg == Aggregate(cv)
                  IN  [outcome |-> "saved",
                       store |-> save_data(st, csv_filename, parsed.pretty_args,
                                           agg.label_list, agg.mse_list,
                                           agg.mae_list, agg.mape_list, agg.n_list),
                       out |-> [ran_cv |-> TRUE, cv |-> cv, agg |-> agg,
                                save_calls |-> 1]]
        ELSE [outcome |-> "skipping", store |-> st, out |-> NoOut]

Main(argv, cv) ==
    /\ Len(log) < MaxRuns
    /\ \E r \in {RunMain(store, argv, cv)} :
          /\ store' = r.store
          /\ log' = Append(log, LogEntry(argv, r.outcome, store, r.store))
          /\ out' = r.out
    /\ UNCHANGED <<datasetVars, wrapperVars>>

NoDataset == [state |-> "none"]

NoCall == [op |-> "none"]

\* No PyTorchWrapper(...) statement run yet; the name it assigns unbound.
NoWrapper == [state |-> "none"]

Unbound == [state |-> "unbound"]

InitDriver ==
    /\ store = <<>>
    /\ log = <<>>
    /\ out = NoOut
    /\ ctor = NoDataset
    /\ ds = NoDataset
    /\ result = NoCall
    /\ wctor = NoWrapper
    /\ wrapper = Unbound
    /\ wresult = NoCall

\* The driver run on any command line of ArgvSet.
NextDriver ==
    Len(log) < MaxRuns /\ \E argv \in ArgvSet : \E cv \in CVLean(argv.parquet_files) : Main(argv, cv)

SpecDriver == InitDriver /\ [][NextDriver]_vars

\* The driver run once on an empty store, with one tree configuration and
\* every cross-validation result of CVRich.
AggArgvSet ==
    { Argv(files, <<"bias_v">>, PyNone, "tree", TreeOpts(FALSE, 1), <<>>) :
          files \in {ThreeRuns, TwoRuns, OneRun} }

NextAgg ==
    Len(log) = 0 /\ \E argv \in AggArgvSet : \E cv \in CVRich(argv.parquet_files) : Main(argv, cv)

SpecAgg == InitDriver /\ [][NextAgg]_vars

(***************************************************************************)
(* Properties of the driver and its results store.                         *)
(***************************************************************************)
\* The key of a command line as the store holds it: the text of its pretty
\* argument values.
Key(argv) == WriteRow(Values(PrettyArgs(argv)))

IsPrefix(a, b) == Len(a) <= Len(b) /\ SubSeq(b, 1, Len(a)) = a

Last == log[Len(log)]

\* Invocation i left a record that invocation j's key matches: same store
\* file, and j's key is the leading part of i's.
Recorded(i, j) ==
    /\ i < j
    /\ log[i].outcome = "saved"
    /\ CsvFilename(log[i].argv) = CsvFilename(log[j].argv)
    /\ IsPrefix(Key(log[j].argv), Key(log[i].argv))

\* Rows an invocation that saves adds to a file of n rows: the record, and
\* the header when the file is new.
Written(n) == IF n = 0 THEN 2 ELSE 1

\* C1: once an invocation has recorded a parameter set, every later
\* invocation with the same command line is "skipping", leaves the store as
\* it is, runs no cross-validation and calls no save_data; so the parameter
\* set has exactly one record.
C1_MemoIdempotent ==
    /\ \A i, j \in DOMAIN log :
          (i < j /\ log[i].argv = log[j].argv /\ log[i].outcome = "saved")
          => /\ log[j].outcome = "skipping"
             /\ log[j].after = log[j].before
             /\ Cardinality({k \in DOMAIN log : log[k].argv = log[i].argv
                                                /\ log[k].outcome = "saved"}) = 1
    /\ (log # <<>> /\ Last.outcome = "skipping")
          => (~out.ran_cv /\ out.save_calls = 0 /\ store[CsvFilename(Last.argv)] # <<>>)

\* C1 witness: a command line saved, then run again and skipped.
C1_Witness ==
    \E i, j \in DOMAIN log :
        /\ i < j /\ log[i].argv = log[j].argv
        /\ log[i].outcome = "saved" /\ log[j].outcome = "skipping"

\* C2 as stated: an invocation whose command line differs from every
\* recorded one in some parameter (file list, dummy and importance
\* included) is not skipped.
C2_Original ==
    \A j \in DOMAIN log :
        (\A i \in 1..(j - 1) :
            log[i].outcome = "saved" => log[i].argv # log[j].argv)
        => log[j].outcome # "skipping"

\* C2 amended: an invocation is skipped exactly when a record of its store
\* file begins with its key (the sub-parser's values without importance);
\* otherwise it appends exactly one record (with the header, in a new
\* file), or nothing when the aggregation raises ZeroDivisionError.
C2_KeySensitivity ==
    \A j \in DOMAIN log :
        log[j].outcome # "ValueError"
        => IF \E i \in DOMAIN log : Recorded(i, j)
           THEN log[j].outcome = "skipping" /\ log[j].after = log[j].before
           ELSE \/ /\ log[j].outcome = "saved"
                   /\ log[j].after = log[j].before + Written(log[j].before)
                \/ /\ log[j].outcome = "ZeroDivisionError"
                   /\ log[j].after = log[j].before

\* C2 witness: a second record in a store file, from a command line with
\* another key.
C2_Witness ==
    \E i, j \in DOMAIN log :
        /\ i < j
        /\ log[i].outcome = "saved" /\ log[j].outcome = "saved"
        /\ CsvFilename(log[i].argv) = CsvFilename(log[j].argv)
        /\ log[j].before = 2 /\ log[j].after = 3

\* The independent value of sum(metric[i]*n[i]) / sum(n[i]), as the pair
\* <<numerator, denominator>> over the common denominator of the metrics.
RECURSIVE DenProduct(_)
DenProduct(vals) ==
    IF vals = <<>> THEN 1 ELSE Head(vals).den * DenProduct(Tail(vals))

RECURSIVE WeightedNumerator(_, _, _)
WeightedNumerator(vals, counts, d) ==
    IF vals = <<>> THEN 0
    ELSE Head(vals).num * (d \div Head(vals).den) * Head(counts).num
         + WeightedNumerator(Tail(vals), Tail(counts), d)

RECURSIVE CountSum(_)
CountSum(counts) ==
    IF counts = <<>> THEN 0 ELSE Head(counts).num + CountSum(Tail(counts))

IsWeightedMean(v, vals, counts) ==
    /\ v.t = "float"
    /\ v.num * DenProduct(vals) * CountSum(counts)
         = v.den * WeightedNumerator(vals, counts, DenProduct(vals))

\* C6: when the driver saves, each of the five sequences is the aggregate
\* followed by the k folds in order; the aggregate is labelled "agg", its
\* metrics are the count-weighted means and its count the sum.
C6_WeightedAggregate ==
    out.save_calls = 1
    => /\ out.agg.label_list = <<"agg">> \o out.cv.label_list
       /\ Tail(out.agg.mse_list) = out.cv.mse_list
       /\ Tail(out.agg.mae_list) = out.cv.mae_list
       /\ Tail(out.agg.mape_list) = out.cv.mape_list
       /\ Tail(out.agg.n_list) = out.cv.n_list
       /\ \A l \in {out.agg.mse_list, out.agg.mae_list, out.agg.mape_list,
                    out.agg.n_list} : Len(l) = Len(out.cv.label_list) + 1
       /\ IsWeightedMean(out.agg.mse_list[1], out.cv.mse_list, out.cv.n_list)
       /\ IsWeightedMean(out.agg.mae_list[1], out.cv.mae_list, out.cv.n_list)
       /\ IsWeightedMean(out.agg.mape_list[1], out.cv.mape_list, out.cv.n_list)
       /\ out.agg.n_list[1].num = CountSum(out.cv.n_list)

\* C6 witness: three folds with different counts and different MSE values,
\* saved.
C6_Witness ==
    /\ out.save_calls = 1
    /\ Len(out.cv.n_list) = 3
    /\ out.cv.n_list[1].num = 1 /\ out.cv.n_list[2].num = 2
    /\ out.cv.mse_list[1] # out.cv.mse_list[2]

\* C7 as stated: when some fold's sample count is zero the aggregation
\* fails with a division by zero and nothing is appended.
C7_Original ==
    (out.ran_cv /\ \E i \in DOMAIN out.cv.n_list : out.cv.n_list[i].num = 0)
    => (Last.outcome = "ZeroDivisionError" /\ out.save_calls = 0
        /\ Last.after = Last.before)

\* A header row ends with the column name "N"; a record ends with a count.
IsHeader(row) == Len(row) >= 5 /\ row[Len(row)] = "N"

\* C8 as stated: every store file starts with its one header row, and every
\* row has as many columns as the header.
C8_Original ==
    \A f \in DOMAIN store :
        /\ store[f] # <<>>
        /\ IsHeader(store[f][1])
        /\ \A r \in DOMAIN store[f] :
              /\ (r > 1 => ~IsHeader(store[f][r]))
              /\ Len(store[f][r]) = Len(store[f][1])

(***************************************************************************)
(* dataset.py.  A DataFrame is its column names and its rows, each row the *)
(* sequence of its cells; a cell is a number or NaN.                       *)
(***************************************************************************)
Num(n) == [nan |-> FALSE, v |-> n]

NaN == [nan |-> TRUE, v |-> 0]

DataFrame(columns, rows) == [columns |-> columns, rows |-> rows]

ColumnIndex(columns, name) == CHOOSE c \in DOMAIN columns : columns[c] = name

\* str.startswith / str.endswith, over the name parts of this model.
NameParts == {"", "1", "2", "_id", "un_id", "venus", "x", "y"}

StartsWith(name, prefix) == \E rest \in NameParts : prefix \o rest = name

EndsWith(name, suffix) == \E stem \in NameParts : stem \o suffix = name

RECURSIVE SelectSeq2(_, _, _)
\* The elements s[i] with keep[i], in order.
SelectSeq2(s, keep, i) ==
    IF i > Len(s) THEN <<>>
    ELSE (IF keep[i] THEN <<s[i]>> ELSE <<>>) \o SelectSeq2(s, keep, i + 1)

\* df[names]: the named columns, in the order given.
SelectColumns(df, names) ==
    DataFrame(names,
              [r \in DOMAIN df.rows |->
                  [c \in DOMAIN names |-> df.rows[r][ColumnIndex(df.columns, names[c])]]])

\* df.fillna(0)
FillNa(df) ==
    DataFrame(df.columns,
              [r \in DOMAIN df.rows |->
                  [c \in DOMAIN df.columns |->
                      IF df.rows[r][c].nan THEN Num(0) ELSE df.rows[r][c]]])

\* The tables of the model: row i holds run_id runs[i], the features
\* x1 = 10i+1 and x2 = 10i+2 (x2 of row nanAt missing) and the target
\* y = 100+i.  A file has up to MaxRows rows of any runs, the x2 of its
\* second row missing.
TableColumns == <<"run_id", "x1", "x2", "y">>

MakeTable(runs, nanAt) ==
    DataFrame(TableColumns,
              [i \in DOMAIN runs |->
                  <<Num(runs[i]), Num(10 * i + 1),
                    IF i = nanAt THEN NaN ELSE Num(10 * i + 2), Num(100 + i)>>])

RunIds == {0, 1}

FileTables ==
    { MakeTable(runs, 2) : runs \in UNION { [1..n -> RunIds] : n \in 0..MaxRows } }

\* The tables handed to apply_scaler and apply_transforms.
ExternalTables ==
    { MakeTable([i \in 1..n |-> 1], nanAt) : n \in 0..2, nanAt \in 0..1 }

Files ==
    { [path |-> "venus.parquet", table |-> t] : t \in FileTables }
    \cup { [path |-> "venus.csv", table |-> MakeTable(<<0, 1>>, 1)],
           [path |-> "venus.txt", table |-> MakeTable(<<0, 1>>, 1)] }

\* read_file (lines 8-25)
read_file(file) ==
    IF EndsWith(file.path, ".csv") THEN [error |-> "", df |-> file.table]
    ELSE IF EndsWith(file.path, ".parquet") THEN [error |-> "", df |-> file.table]
    ELSE [error |-> "ValueError", df |-> DataFrame(<<>>, <<>>)]

(***************************************************************************)
(* Run selection.  A selection is None, an int, a float or a list of       *)
(* numbers.  preprocessing.select_rows is not part of the sources: it is   *)
(* modelled as the row selector the specification describes, keeping the   *)
(* rows whose key column equals the value or is a member of the values.    *)
(* (The comparators run_select hands it, lines 43 and 45, compare the      *)
(* whole table and ignore the column; what select_rows makes of them is    *)
(* not in the sources.)                                                    *)
(***************************************************************************)
PyNumList(xs) == [t |-> "list", num |-> 0, den |-> 1, s |-> "", items |-> xs]

RunSelections ==
    { PyNone, PyInt(0), PyInt(1), PyFloat(1, 1), PyNumList(<<1>>) }

\* Python truthiness: None, 0, 0.0 and [] are false.
Truthy(v) ==
    CASE v.t = "None" -> FALSE
      [] v.t \in {"int", "float", "bool"} -> v.num # 0
      [] v.t = "list" -> v.items # <<>>
      [] OTHER -> TRUE

NumEq(cell, v) == ~cell.nan /\ cell.v * v.den = v.num

select_rows(df, column, selection, membership) ==
    LET c == ColumnIndex(df.columns, column)
        keep == [r \in DOMAIN df.rows |->
                    IF membership
                    THEN \E k \in DOMAIN selection.items :
                             ~df.rows[r][c].nan /\ df.rows[r][c].v = selection.items[k]
                    ELSE NumEq(df.rows[r][c], selection)]
    IN  DataFrame(df.columns, SelectSeq2(df.rows, keep, 1))

\* type(run_selection) == List[float] (line 44): the type of a value is a
\* class, never the typing construct List[float], so this is false for
\* every value, a list included.
TypeIsTypingList(v) == FALSE

\* run_select (lines 28-48)
run_select(df, run_selection) ==
    IF run_selection.t \in {"int", "float"}
    THEN [error |-> "", df |-> select_rows(df, "run_id", run_selection, FALSE)]
    ELSE IF TypeIsTypingList(run_selection)
    THEN [error |-> "", df |-> select_rows(df, "run_id", run_selection, TRUE)]
    ELSE [error |-> "ValueError", df |-> df]

(***************************************************************************)
(* The scaler and the transforms are callables the caller supplies.  The   *)
(* scaler of the model centres every feature column (name starting with    *)
(* "x") on its midrange: with p1 the column minima and p2 the maxima, a     *)
(* cell x becomes 2x - (p1 + p2).  Called without parameters it fits them   *)
(* on the table it is given; it returns the table and the parameters.       *)
(***************************************************************************)
IsFeature(name) == StartsWith(name, "x")

ColumnValues(df, c) == { df.rows[r][c].v : r \in { q \in DOMAIN df.rows : ~df.rows[q][c].nan } }

SetMin(S) == CHOOSE m \in S : \A o \in S : m <= o

SetMax(S) == CHOOSE m \in S : \A o \in S : m >= o

\* min() / max() of each column, NaN for a column without values.
ColumnMin(df) ==
    [c \in DOMAIN df.columns |->
        IF ColumnValues(df, c) = {} THEN NaN ELSE Num(SetMin(ColumnValues(df, c)))]

ColumnMax(df) ==
    [c \in DOMAIN df.columns |->
        IF ColumnValues(df, c) = {} THEN NaN ELSE Num(SetMax(ColumnValues(df, c)))]

Unfitted == <<>>

scaler(df, param1, param2) ==
    LET p1 == IF param1 = Unfitted THEN ColumnMin(df) ELSE param1
        p2 == IF param2 = Unfitted THEN ColumnMax(df) ELSE param2
    IN  [df |-> DataFrame(df.columns,
                  [r \in DOMAIN df.rows |->
                      [c \in DOMAIN df.columns |->
                          IF ~IsFeature(df.columns[c]) THEN df.rows[r][c]
                          ELSE IF df.rows[r][c].nan \/ p1[c].nan \/ p2[c].nan THEN NaN
                          ELSE Num(2 * df.rows[r][c].v - (p1[c].v + p2[c].v))]]),
         params |-> <<p1, p2>>]

\* The arithmetic of the transforms "inc" and "double" on one value.
FeatureOp(name, v) == IF name = "inc" THEN v + 1 ELSE 2 * v

MapFeatures(df, name) ==
    DataFrame(df.columns,
              [r \in DOMAIN df.rows |->
                  [c \in DOMAIN df.columns |->
                      IF IsFeature(df.columns[c]) /\ ~df.rows[r][c].nan
                      THEN Num(FeatureOp(name, df.rows[r][c].v)) ELSE df.rows[r][c]]])

\* The transforms of the model, by name: add one to every feature, double
\* every feature, drop the rows with a missing cell.
Transform(name, df) ==
    CASE name = "inc" -> MapFeatures(df, "inc")
      [] name = "double" -> MapFeatures(df, "double")
      [] OTHER ->
            DataFrame(df.columns,
                SelectSeq2(df.rows,
                    [r \in DOMAIN df.rows |->
                        \A c \in DOMAIN df.columns : ~df.rows[r][c].nan], 1))

\* for transform in transforms: df = transform(df)   (lines 101-102, 144-145)
RECURSIVE ApplyEach(_, _)
ApplyEach(transforms, df) ==
    IF transforms = <<>> THEN df
    ELSE ApplyEach(Tail(transforms), Transform(Head(transforms), df))

NoScaler == "None"

\* The transforms argument: None, or a list of transform names.
NoTransforms == [none |-> TRUE, list |-> <<>>]

TransformList(names) == [none |-> FALSE, list |-> names]

TransformArgs ==
    { NoTransforms, TransformList(<<>>), TransformList(<<"inc", "double">>),
      TransformList(<<"double", "inc">>), TransformList(<<"dropna">>) }

CtorArgsOf(files, selections, scalers, transforms, lengths) ==
    { [file |-> f, input_columns |-> <<"x">>, output_columns |-> <<"y">>,
       run_selection |-> rs, scaler |-> sc, transforms |-> tr,
       sequence_length |-> sl] :
          f \in files, rs \in selections, sc \in scalers,
          tr \in transforms, sl \in lengths }

\* The constructor calls behind the indexing properties: every file, run
\* selection and sequence length, with and without a scaler and a
\* row-dropping transform.
IndexCtorArgs ==
    CtorArgsOf(Files, RunSelections, {NoScaler, "scaler"},
               {NoTransforms, TransformList(<<"dropna">>)}, 0..MaxSeqLen)

\* The constructor calls behind the replay properties: every file, no run
\* selection (None, or 0 which line 94 treats alike), with and without a
\* scaler, and each transform list.
PipelineCtorArgs ==
    CtorArgsOf(Files, {PyNone, PyInt(0)}, {NoScaler, "scaler"},
               TransformArgs, {0, 1})

\* The columns whose name starts with one of the prefixes (line 105).
PrefixColumns(columns, prefixes) ==
    SelectSeq2(columns,
               [c \in DOMAIN columns |->
                   \E k \in DOMAIN prefixes : StartsWith(columns[c], prefixes[k])], 1)

Failed(error) == [state |-> error]

\* VenusDataset.__init__ (lines 69-106): the object, or the error raised.
\* has lists the attributes the constructor assigned: scale_function and
\* scale_params only with a scaler, transforms only with a non-empty list.
__init__(a) ==
    LET read == read_file(a.file)
        selected == IF Truthy(a.run_selection)
                    THEN run_select(read.df, a.run_selection)
                    ELSE [error |-> "", df |-> read.df]
        has_scaler == a.scaler # NoScaler
        scaled == IF has_scaler THEN scaler(selected.df, Unfitted, Unfitted)
                  ELSE [df |-> selected.df, params |-> <<Unfitted, Unfitted>>]
        has_transforms == ~a.transforms.none /\ a.transforms.list # <<>>
        df == IF has_transforms THEN ApplyEach(a.transforms.list, scaled.df)
              ELSE scaled.df
    IN  IF read.error # "" THEN Failed(read.error)
        ELSE IF selected.error # "" THEN Failed(selected.error)
        ELSE [state |-> "ready",
              has |-> {"df", "sequence_length", "inputs", "outputs"}
                      \cup (IF has_scaler THEN {"scale_function", "scale_params"} ELSE {})
                      \cup (IF has_transforms THEN {"transforms"} ELSE {}),
              df |-> df,
              scale_function |-> a.scaler,
              scale_params |-> scaled.params,
              transforms |-> a.transforms.list,
              sequence_length |-> a.sequence_length,
              inputs |-> FillNa(SelectColumns(df, PrefixColumns(df.columns, a.input_columns))),
              outputs |-> FillNa(SelectColumns(df, a.output_columns))]

(***************************************************************************)
(* The methods.  Each yields the object afterwards (self), the value       *)
(* returned and the error raised ("" for none).                            *)
(***************************************************************************)
NoValue == <<>>

\* __len__ (lines 108-109)
__len__(self) ==
    [self |-> self, error |-> "", value |-> Len(self.df.rows) - self.sequence_length]

\* DataFrame.iloc[i] for an integer: a negative i counts from the end, and
\* an i outside -n..n-1 raises IndexError.
IlocRow(df, i) ==
    LET n == Len(df.rows)
    IN  IF i >= n \/ i < -n THEN [error |-> "IndexError", row |-> <<>>]
        ELSE [error |-> "", row |-> df.rows[(IF i < 0 THEN i + n ELSE i) + 1]]

\* DataFrame.iloc[start:stop]: Python slicing, negative bounds count from
\* the end and both are clipped to 0..n; it never raises.
SliceBound(i, n) == IF i < 0 THEN Max(i + n, 0) ELSE Min(i, n)

IlocSlice(df, start, stop) ==
    LET n == Len(df.rows)
    IN  SubSeq(df.rows, SliceBound(start, n) + 1, SliceBound(stop, n))

\* __getitem__ (lines 111-121) for an integer idx.
__getitem__(self, idx) ==
    LET L == self.sequence_length
        target == IlocRow(self.outputs, idx + L)
        point == IlocRow(self.inputs, idx)
    IN  IF L # 0
        THEN IF target.error # ""
             THEN [self |-> self, error |-> target.error, value |-> NoValue]
             ELSE [self |-> self, error |-> "",
                   value |-> <<IlocSlice(self.inputs, idx, idx + L), target.row>>]
        ELSE IF point.error # ""
             THEN [self |-> self, error |-> point.error, value |-> NoValue]
             ELSE [self |-> self, error |-> "", value |-> <<point.row, target.row>>]

\* apply_scaler refitting the parameters on the table it is given, and
\* keeping them.
apply_scaler_refit(self, df) ==
    IF "scale_params" \notin self.has
    THEN [self |-> self, error |-> "AttributeError", value |-> NoValue]
    ELSE LET fit == scaler(df, Unfitted, Unfitted)
         IN  [self |-> [self EXCEPT !.scale_params = fit.params],
              error |-> "", value |-> fit.df]

\* apply_scaler (lines 123-133)
apply_scaler(self, df) ==
    IF "scale_params" \notin self.has
    THEN [self |-> self, error |-> "AttributeError", value |-> NoValue]
    ELSE LET param1 == self.scale_params[1]
             param2 == self.scale_params[2]
         IN  [self |-> self, error |-> "",
              value |-> scaler(df, param1, param2).df]

\* apply_transforms (lines 135-146)
apply_transforms(self, df) ==
    IF "transforms" \notin self.has
    THEN [self |-> self, error |-> "AttributeError", value |-> NoValue]
    ELSE [self |-> self, error |-> "", value |-> ApplyEach(self.transforms, df)]

(***************************************************************************)
(* The dataset: constructed once, then used through its methods.           *)
(***************************************************************************)
Call(op, arg, r) == [op |-> op, arg |-> arg, error |-> r.error, value |-> r.value]

Construct(a) ==
    /\ ds = NoDataset
    /\ ctor' = a
    /\ ds' = __init__(a)
    /\ result' = NoCall
    /\ UNCHANGED <<driverVars, wrapperVars>>

Length ==
    /\ ds.state = "ready"
    /\ \E r \in {__len__(ds)} :
          ds' = r.self /\ result' = Call("__len__", NoValue, r)
    /\ UNCHANGED <<ctor, driverVars, wrapperVars>>

GetItem(idx) ==
    /\ ds.state = "ready"
    /\ \E r \in {__getitem__(ds, idx)} :
          ds' = r.self /\ result' = Call("__getitem__", idx, r)
    /\ UNCHANGED <<ctor, driverVars, wrapperVars>>

ApplyScaler(df) ==
    /\ ds.state = "ready"
    /\ \E r \in {apply_scaler(ds, df)} :
          ds' = r.self /\ result' = Call("apply_scaler", df, r)
    /\ UNCHANGED <<ctor, driverVars, wrapperVars>>

ApplyTransforms(df) ==
    /\ ds.state = "ready"
    /\ \E r \in {apply_transforms(ds, df)} :
          ds' = r.self /\ result' = Call("apply_transforms", df, r)
    /\ UNCHANGED <<ctor, driverVars, wrapperVars>>

InitDataset ==
    /\ store = <<>>
    /\ log = <<>>
    /\ out = NoOut
    /\ ctor = NoDataset
    /\ ds = NoDataset
    /\ result = NoCall
    /\ wctor = NoWrapper
    /\ wrapper = Unbound
    /\ wresult = NoCall

Indices == -(MaxRows + 1)..(MaxRows + 1)

\* Construction, then any sequence of __len__ and __getitem__ calls.
NextIndex ==
    \/ \E a \in IndexCtorArgs : Construct(a)
    \/ Length
    \/ \E idx \in Indices : GetItem(idx)

SpecIndex == InitDataset /\ [][NextIndex]_vars

\* Construction, then any sequence of apply_scaler and apply_transforms
\* calls.
NextPipeline ==
    \/ \E a \in PipelineCtorArgs : Construct(a)
    \/ \E df \in ExternalTables : ApplyScaler(df)
    \/ \E df \in ExternalTables : ApplyTransforms(df)

SpecPipeline == InitDataset /\ [][NextPipeline]_vars

(***************************************************************************)
(* Properties of the dataset.                                              *)
(***************************************************************************)
RowCount == Len(ds.df.rows)

\* Python's rows[j]: a negative j counts from the end.
InRange(rows, j) == j >= -Len(rows) /\ j < Len(rows)

PyAt(rows, j) == rows[(IF j < 0 THEN j + Len(rows) ELSE j) + 1]

\* C3 as stated: __len__ is max(rows - sequence_length, 0), never negative
\* and never an error.
C3_Original ==
    result.op = "__len__"
    => /\ result.error = ""
       /\ result.value = Max(RowCount - ds.sequence_length, 0)

\* C4 as stated: __getitem__ raises an out-of-range error exactly for the
\* indices outside [0, rows - sequence_length).
C4_Original ==
    result.op = "__getitem__"
    => (result.error = "IndexError"
        <=> result.arg \notin 0..(RowCount - ds.sequence_length - 1))

\* C5 as stated: every item __getitem__ returns for index i is, in sequence
\* mode, the L input rows i .. i+L-1 with output row i+L, and in point mode
\* input row i with output row i.
C5_Original ==
    (result.op = "__getitem__" /\ result.error = "")
    => LET i == result.arg
           L == ds.sequence_length
       IN  IF L > 0
           THEN /\ Len(result.value[1]) = L
                /\ \A k \in 1..L :
                      /\ InRange(ds.inputs.rows, i + k - 1)
                      /\ result.value[1][k] = PyAt(ds.inputs.rows, i + k - 1)
                /\ result.value[2] = PyAt(ds.outputs.rows, i + L)
           ELSE result.value = <<PyAt(ds.inputs.rows, i), PyAt(ds.outputs.rows, i)>>

\* The rows of the constructor's file whose run_id the selection names.
WantedRuns(sel) ==
    IF sel.t = "list" THEN Range(sel.items)
    ELSE { n \in RunIds : n * sel.den = sel.num }

MatchingRows(a) ==
    LET t == a.file.table
        c == ColumnIndex(t.columns, "run_id")
    IN  DataFrame(t.columns,
            SelectSeq2(t.rows,
                [r \in DOMAIN t.rows |-> t.rows[r][c].v \in WantedRuns(a.run_selection)], 1))

\* The constructor's pipeline on a table: the scaler fitted on it, then the
\* transforms, first to last.
RECURSIVE InOrder(_, _)
InOrder(names, df) ==
    IF names = <<>> THEN df
    ELSE Transform(names[Len(names)], InOrder(SubSeq(names, 1, Len(names) - 1), df))

Pipeline(a, df) ==
    InOrder(a.transforms.list,
            IF a.scaler = NoScaler THEN df ELSE scaler(df, Unfitted, Unfitted).df)

\* C9 as stated: with a run selection given (a number, 0 included, or a
\* list) and a readable file, the dataset is built from exactly the rows of
\* the selected runs, filtered before the scaler and the transforms.
C9_Original ==
    (ctor # NoDataset /\ ctor.run_selection.t # "None"
        /\ read_file(ctor.file).error = "")
    => /\ ds.state = "ready"
       /\ ds.df = Pipeline(ctor, MatchingRows(ctor))

\* The table the constructor's scaler was fitted on: the file's table, no
\* run selection being applied.
FittedOn(a) == a.file.table

\* C10: apply_scaler and apply_transforms leave the dataset's scale
\* parameters, transform list and inputs/outputs as construction set them;
\* apply_scaler returns the scale function's table for the parameters
\* fitted at construction, and apply_transforms the transforms applied in
\* construction order.
C10_ReplayWithoutRefit ==
    ds.state = "ready"
    => /\ "scale_params" \in ds.has
            => ds.scale_params = scaler(FittedOn(ctor), Unfitted, Unfitted).params
       /\ ds.transforms = ctor.transforms.list
       /\ ds.inputs = __init__(ctor).inputs
       /\ ds.outputs = __init__(ctor).outputs
       /\ (result.op = "apply_scaler" /\ result.error = "")
            => result.value
                 = scaler(result.arg,
                          scaler(FittedOn(ctor), Unfitted, Unfitted).params[1],
                          scaler(FittedOn(ctor), Unfitted, Unfitted).params[2]).df
       /\ (result.op = "apply_scaler" /\ ctor.scaler # NoScaler) => result.error = ""
       /\ (result.op = "apply_transforms" /\ result.error = "")
            => result.value = InOrder(ctor.transforms.list, result.arg)
       /\ (result.op = "apply_transforms" /\ ctor.transforms.list # <<>>)
            => result.error = ""

\* C10 witness: apply_scaler on a table whose own fit would scale it
\* differently.
C10_Witness ==
    /\ ds.state = "ready"
    /\ result.op = "apply_scaler" /\ result.error = ""
    /\ result.arg.rows # <<>>
    /\ result.value # scaler(result.arg, Unfitted, Unfitted).df

(***************************************************************************)
(* pytorch_wrapper.py.  The statements of a client are run one at a time:  *)
(* PyTorchWrapper(...) assigned to a name, then train, predict and         *)
(* evaluate called through that name.  A statement that raises leaves the  *)
(* client's names as they were.  The nn.Module is its mode and the number  *)
(* of optimizer updates its parameters have had; a loss value is decided   *)
(* by the batch and the parameters it was computed with.                   *)
(***************************************************************************)
\* The names the module binds at top level (lines 1-15).  A free name of a
\* method body is looked up among the method's locals and these.
ModuleGlobals ==
    {"Callable", "Optional", "Type", "Tuple", "Sequence", "torch", "nn", "plt",
     "DataLoader", "VenusDataset", "PyTorchWrapper"}

\* The parameters of __init__ (lines 27-28).
InitLocals == {"self", "model", "criterion", "optimizer", "training_parameters"}

NameDefined(name, locals) == name \in locals \cup ModuleGlobals

\* training_parameters: (epochs, batch size, device).
TrainingParameters ==
    { <<e, b, "cpu">> : e \in 0..MaxEpochs, b \in 1..MaxBatch }

Module(mode, updates) == [mode |-> mode, updates |-> updates]

\* PyTorchWrapper.__init__ (lines 27-42): line 38 reads the name device,
\* which is bound only at line 41, as the attribute self.device.
PyTorchWrapper__init__(training_parameters) ==
    IF ~NameDefined("device", InitLocals)
    THEN [self |-> Unbound, error |-> "NameError", value |-> NoValue]
    ELSE [self |-> [state |-> "ready",
                    model |-> Module("train", 0),
                    epochs |-> training_parameters[1],
                    batch_size |-> training_parameters[2],
                    device |-> training_parameters[3],
                    losses |-> 0,
                    loss_history |-> <<>>],
          error |-> "", value |-> NoValue]

\* The orders shuffle=True can iterate n indices in.
Shuffles(n) ==
    { p \in [1..n -> 0..(n - 1)] : \A i, j \in 1..n : p[i] = p[j] => i = j }

Ceil(n, b) == (n + b - 1) \div b

\* The mini-batches of one epoch: consecutive runs of batch_size indices of
\* the shuffled order, the last one shorter (drop_last is False).
Batches(order, b) ==
    [k \in 1..Ceil(Len(order), b) |->
        SubSeq(order, (k - 1) * b + 1, Min(k * b, Len(order)))]

\* for epoch in range(self.epochs): for batch in train_loader  (lines 85-86)
RECURSIVE AllBatches(_, _)
AllBatches(shuffles, b) ==
    IF shuffles = <<>> THEN <<>>
    ELSE Batches(Head(shuffles), b) \o AllBatches(Tail(shuffles), b)

\* The loader fetching a batch: dataset[i] for each of its indices.
Fetch(dataset, batch) ==
    IF \E i \in DOMAIN batch : __getitem__(dataset, batch[i]).error # ""
    THEN [error |-> "IndexError", items |-> <<>>]
    ELSE [error |-> "",
          items |-> [i \in DOMAIN batch |-> __getitem__(dataset, batch[i]).value]]

\* loss.item() (line 97)
Loss(batch, updates) == [batch |-> batch, updates |-> updates]

\* The loop body, lines 87-97, from batch k on: one loss, one optimizer
\* step, one entry appended.
RECURSIVE TrainLoop(_, _, _, _)
TrainLoop(self, dataset, batches, k) ==
    IF k > Len(batches) THEN [self |-> self, error |-> "", value |-> NoValue]
    ELSE IF Fetch(dataset, batches[k]).error # ""
    THEN [self |-> self, error |-> Fetch(dataset, batches[k]).error, value |-> NoValue]
    ELSE TrainLoop([self EXCEPT
                        !.losses = @ + 1,
                        !.model = Module("train", self.model.updates + 1),
                        !.loss_history =
                            Append(@, Loss(batches[k], self.model.updates))],
                   dataset, batches, k + 1)

\* train (lines 76-97).  shuffles holds the order of each epoch.  DataLoader
\* (line 83) takes len(dataset), which raises ValueError for a negative
\* __len__; for an empty dataset the sampler raises ValueError or yields no
\* batch, depending on the library version (empty_ok).
train(self, dataset, shuffles, empty_ok) ==
    LET n == __len__(dataset).value
    IN  IF n < 0 \/ (n = 0 /\ ~empty_ok)
        THEN [self |-> self, error |-> "ValueError", value |-> NoValue]
        ELSE TrainLoop([self EXCEPT !.model = Module("train", self.model.updates)],
                       dataset, AllBatches(shuffles, self.batch_size), 1)

\* predict (lines 44-58)
predict(self, data) ==
    [self |-> [self EXCEPT !.model = Module("eval", self.model.updates)],
     error |-> "",
     value |-> [data |-> data, updates |-> self.model.updates]]

\* The methods of VenusDataset (dataset.py lines 108-149).
DatasetMethods ==
    {"__len__", "__getitem__", "apply_scaler", "apply_transforms", "to_numpy"}

\* evaluate (lines 60-74): line 70 calls dataset.to_tensor().
evaluate(self, dataset) ==
    IF "to_tensor" \notin DatasetMethods
    THEN [self |-> self, error |-> "AttributeError", value |-> NoValue]
    ELSE [self |-> predict(self, dataset.inputs).self,
          error |-> "",
          value |-> Loss(dataset.outputs, self.model.updates)]

\* A call through the client's name for the wrapper: NameError while the
\* name is unbound.
NoSuchName == [self |-> Unbound, error |-> "NameError", value |-> NoValue]

TrainOutcomes(w, dataset) ==
    IF w = Unbound THEN {NoSuchName}
    ELSE { train(w, dataset, shuffles, empty_ok) :
               shuffles \in [1..w.epochs -> Shuffles(Max(__len__(dataset).value, 0))],
               empty_ok \in BOOLEAN }

WCall(op, arg, before, r) ==
    [op |-> op, arg |-> arg, before |-> before, error |-> r.error, value |-> r.value]

History(w) == IF w.state = "ready" THEN w.loss_history ELSE <<>>

Updates(w) == IF w.state = "ready" THEN w.model.updates ELSE 0

Losses(w) == IF w.state = "ready" THEN w.losses ELSE 0

\* wrapper = PyTorchWrapper(model, criterion, optimizer, training_parameters)
Wrap(training_parameters) ==
    /\ wctor' = [state |-> "called", training_parameters |-> training_parameters]
    /\ \E r \in {PyTorchWrapper__init__(training_parameters)} :
          /\ wrapper' = (IF r.error = "" THEN r.self ELSE wrapper)
          /\ wresult' = WCall("__init__", training_parameters, wrapper, r)
    /\ UNCHANGED <<driverVars, datasetVars>>

\* wrapper.train(dataset), with the dataset constructed before.
Train ==
    /\ wctor # NoWrapper
    /\ ds.state = "ready"
    /\ Len(History(wrapper)) <= MaxHistory
    /\ \E r \in TrainOutcomes(wrapper, ds) :
          /\ wrapper' = r.self
          /\ wresult' = WCall("train", [n |-> __len__(ds).value], wrapper, r)
    /\ UNCHANGED <<wctor, driverVars, datasetVars>>

\* wrapper.predict(data)
Predict(data) ==
    /\ wctor # NoWrapper
    /\ \E r \in {IF wrapper = Unbound THEN NoSuchName ELSE predict(wrapper, data)} :
          /\ wrapper' = r.self
          /\ wresult' = WCall("predict", data, wrapper, r)
    /\ UNCHANGED <<wctor, driverVars, datasetVars>>

\* wrapper.evaluate(dataset)
Evaluate ==
    /\ wctor # NoWrapper
    /\ ds.state = "ready"
    /\ \E r \in {IF wrapper = Unbound THEN NoSuchName ELSE evaluate(wrapper, ds)} :
          /\ wrapper' = r.self
          /\ wresult' = WCall("evaluate", [n |-> __len__(ds).value], wrapper, r)
    /\ UNCHANGED <<wctor, driverVars, datasetVars>>

\* The datasets handed to train and evaluate: every file, point mode and
\* sequence mode.
TrainCtorArgs ==
    CtorArgsOf(Files, {PyNone}, {NoScaler}, {NoTransforms}, 0..MaxSeqLen)

\* A dataset, a wrapper, then any sequence of train, predict and evaluate
\* calls and further constructions of the wrapper.
NextWrapper ==
    \/ \E a \in TrainCtorArgs : Construct(a)
    \/ \E tp \in TrainingParameters : Wrap(tp)
    \/ Train
    \/ \E data \in ExternalTables : Predict(data)
    \/ Evaluate

SpecWrapper == InitDataset /\ [][NextWrapper]_vars

(***************************************************************************)
(* Properties of the wrapper.                                              *)
(***************************************************************************)
\* The indices of the batches recorded in entries from..to of a history.
RECURSIVE BatchIndices(_, _, _)
BatchIndices(history, from, to) ==
    IF from > to THEN <<>>
    ELSE history[from].batch \o BatchIndices(history, from + 1, to)

\* C11 as stated: a train call on a dataset of size n through a wrapper
\* constructed with e epochs and batch size b completes, computes one loss
\* and makes one optimizer update per batch, and appends ceil(n/b) losses
\* per epoch, whose batches hold every index 0..n-1 exactly once; the
\* earlier entries stay as they were; predict and evaluate add no entry and
\* make no update.
C11_Original ==
    /\ (wresult.op = "train" /\ wresult.arg.n >= 0)
       => LET e == wctor.training_parameters[1]
              b == wctor.training_parameters[2]
              n == wresult.arg.n
              c == Ceil(n, b)
              old == Len(History(wresult.before))
          IN  /\ n >= 1 => wresult.error = ""
              /\ Len(History(wrapper)) = old + e * c
              /\ SubSeq(History(wrapper), 1, old) = History(wresult.before)
              /\ Losses(wrapper) = Losses(wresult.before) + e * c
              /\ Updates(wrapper) = Updates(wresult.before) + e * c
              /\ \A ep \in 1..e :
                    LET ix == BatchIndices(History(wrapper),
                                           old + (ep - 1) * c + 1, old + ep * c)
                    IN  Len(ix) = n /\ Range(ix) = 0..(n - 1)
    /\ wresult.op \in {"predict", "evaluate"}
       => /\ History(wrapper) = History(wresult.before)
          /\ Updates(wrapper) = Updates(wresult.before)

====
